---- MODULE Spec2Model ----
(***************************************************************************)
(* Model of feature_extractor_api.py: the Kismet -> Elasticsearch feature  *)
(* extractor.  The module holds                                             *)
(*   - the JSON/Python values the program handles,                          *)
(*   - the pure helpers ssid_entropy, epoch_to_iso, build_feature_doc and   *)
(*     bulk_index as operators,                                             *)
(*   - the poll loop of main() as a state machine (Spec),                   *)
(*   - two harnesses that apply the pure helpers to bounded inputs          *)
(*     (SpecBuilder for build_feature_doc, SpecEntropy for ssid_entropy).   *)
(***************************************************************************)
EXTENDS Integers, Sequences, FiniteSets, TLC

VARIABLES
    \* ---- main(): the poll loop ----
    pc,              \* position of main(): "fetch", "transform", "sleep", "exited"
    clock,           \* wall clock, whole seconds since the epoch (datetime.now);
                     \* a cycle's work is done within the second, the sleep takes 10
    es_pipeline,     \* ES_PIPELINE, read once from the environment
    sensor_now_iso,  \* local of main (line 208)
    devices,         \* local of main (line 210): the decoded JSON response
    idx,             \* position of the for loop of line 213 in devices
    docs,            \* local of main (line 211)
    exitStatus,      \* how the process ended: "running", "clean" or "traceback"
    \* ---- observations of the run (history) ----
    nFetch,          \* calls of get_kismet_devices so far
    nSleep,          \* completed time.sleep calls so far
    cyc,             \* the current cycle: how fetch, transform and delivery went,
                     \* the documents built, the helpers.bulk calls issued and
                     \* the actions handed over
    prev,            \* how the cycle before went
    interrupted,     \* where a KeyboardInterrupt was raised (a position of main,
                     \* or the blocking call it arrived in), or "no"
    \* ---- harness of build_feature_doc ----
    bDevice, bSensor, bNows, bResult,
    \* ---- harness of ssid_entropy ----
    eSsid, eResult

loopVars == <<pc, clock, es_pipeline, sensor_now_iso, devices, idx, docs, exitStatus,
              nFetch, nSleep, cyc, prev, interrupted>>
builderVars == <<bDevice, bSensor, bNows, bResult>>
entropyVars == <<eSsid, eResult>>
vars == <<loopVars, builderVars, entropyVars>>

(***************************************************************************)
(* Bounds of the model.                                                    *)
(***************************************************************************)
MaxCycles == 3        \* poll cycles explored
MaxDevices == 2       \* devices in one Kismet response
MaxNowDelay == 1      \* seconds between two clock readings inside one build
MaxLen == 6           \* longest SSID given to the entropy harness

(***************************************************************************)
(* Program constants.                                                      *)
(***************************************************************************)
POLL_INTERVAL_SEC == 10
ES_INDEX == "wids-wireless-features"
SENSOR_ID == "sensor-1"
SENSOR_SITE == "lab"

(***************************************************************************)
(* Python / JSON values.  Every value is a record of one shape:            *)
(*   t  the type: "absent" (no such key), "null" (None), "num", "str",     *)
(*      "obj" (dict)                                                       *)
(*   n  the integer mantissa of a number, x its decimal exponent           *)
(*      (the number is n * 10^x)                                           *)
(*   s  the characters of a string, one element per code point: the        *)
(*      character itself when it is printable ASCII, "\t", "\n", "\r" or    *)
(*      "\f", and for any other code point "U+" and its upper-case         *)
(*      hexadecimal number of four digits or more ("U+00A0")               *)
(*   o  the mapping of a dict, a function from keys to values              *)
(***************************************************************************)
EmptyMap == [k \in {} |-> 0]
None == [t |-> "null", n |-> 0, x |-> 0, s |-> <<>>, o |-> EmptyMap]
Absent == [t |-> "absent", n |-> 0, x |-> 0, s |-> <<>>, o |-> EmptyMap]
Num(i) == [t |-> "num", n |-> i, x |-> 0, s |-> <<>>, o |-> EmptyMap]
Dec(i, e) == [t |-> "num", n |-> i, x |-> e, s |-> <<>>, o |-> EmptyMap]
Huge == Dec(1, 20)
Str(cs) == [t |-> "str", n |-> 0, x |-> 0, s |-> cs, o |-> EmptyMap]
Obj(f) == [t |-> "obj", n |-> 0, x |-> 0, s |-> <<>>, o |-> f]

\* One optional key of a dict literal.
Opt(k, v) == IF v.t = "absent" THEN EmptyMap ELSE (k :> v)

(***************************************************************************)
(* Numbers as they are written: a sequence ds of decimal digits and the    *)
(* number `point` of them that stand before the decimal point (it may be   *)
(* negative, or more than Len(ds)).                                        *)
(***************************************************************************)
\* The decimal digits of a natural number.
RECURSIVE DigitsOf(_)
DigitsOf(n) == IF n < 10 THEN <<n>> ELSE Append(DigitsOf(n \div 10), n % 10)

\* The i-th digit of the number written ds, i counted from the first digit
\* of ds; the digits before and after those of ds are 0.
DigitAt(ds, i) == IF i >= 1 /\ i <= Len(ds) THEN ds[i] ELSE 0

\* The position of the first digit of ds that is not 0; 0 when there is none.
FirstNonZero(ds) ==
    IF \A i \in 1..Len(ds) : ds[i] = 0 THEN 0
    ELSE CHOOSE i \in 1..Len(ds) : ds[i] # 0 /\ \A j \in 1..(i - 1) : ds[j] = 0

\* The digits of ds after digit `point`: the fraction that is written.
FractionOf(ds, point) ==
    SubSeq([i \in 1..(Len(ds) - point) |-> DigitAt(ds, point + i)], 1, Len(ds) - point)

\* (bit + 0.y) / 2, a decimal fraction of one more digit than y.  (SubSeq here
\* and below makes the sequence explicit, for TLC to compute each digit once.)
Halved(bit, y) ==
    SubSeq([i \in 1..(Len(y) + 1) |->
               (10 * ((IF i = 1 THEN bit ELSE y[i - 1]) % 2) + DigitAt(y, i)) \div 2],
           1, Len(y) + 1)

\* The decimal digits of the binary fraction 0.bits, given the digits y of
\* its last Len(y) bits: one digit for each bit, the bits read from the last,
\* first half of those that are missing, then the rest.
RECURSIVE Decimal(_, _)
Decimal(bits, y) ==
    IF Len(y) >= Len(bits) THEN y
    ELSE IF Len(y) + 1 = Len(bits) THEN Halved(bits[1], y)
    ELSE Decimal(bits, Decimal(SubSeq(bits, (Len(bits) - Len(y)) \div 2 + 1, Len(bits)), y))

\* The decimal digits of 2^-m.
HalfPow(m) == Decimal(SubSeq([i \in 1..m |-> IF i = m THEN 1 ELSE 0], 1, m), <<>>)

\* The decimal fraction a is greater than b.
Greater(a, b) ==
    \E i \in 1..(Len(a) + Len(b)) :
        /\ DigitAt(a, i) > DigitAt(b, i)
        /\ \A j \in 1..(i - 1) : DigitAt(a, j) = DigitAt(b, j)

\* The smallest double above 0 is 2^-1074.  resp.json() decodes a number to
\* the nearest double, a tie to the even one: what is written at most
\* 2^-1075 decodes to 0.0.
HalfSmallest == HalfPow(1075)

\* The number written ds with `point` digits before the point, whose first
\* digit that is not 0 is digit `first`, decodes to 0 (0, 0.0 or -0.0).
DecodesToZeroAt(ds, point, first) ==
    \/ first = 0
    \/ /\ first > point
       /\ \/ first - point > FirstNonZero(HalfSmallest)
          \/ /\ first - point = FirstNonZero(HalfSmallest)
             /\ ~Greater(FractionOf(ds, point), HalfSmallest)

DecodesToZero(v) ==
    \/ v.n = 0
    \/ DecodesToZeroAt(DigitsOf(IF v.n < 0 THEN -v.n ELSE v.n),
                       Len(DigitsOf(IF v.n < 0 THEN -v.n ELSE v.n)) + v.x,
                       FirstNonZero(DigitsOf(IF v.n < 0 THEN -v.n ELSE v.n)))

\* Python truthiness (bool(v)).
Truthy(v) ==
    CASE v.t = "null" -> FALSE
      [] v.t = "absent" -> FALSE
      [] v.t = "num" -> ~DecodesToZero(v)
      [] v.t = "str" -> Len(v.s) > 0
      [] v.t = "obj" -> DOMAIN v.o # {}

\* a or b
PyOr(a, b) == IF Truthy(a) THEN a ELSE b

\* dict.get(key, default)
DictGet(d, key, default) == IF key \in DOMAIN d.o THEN d.o[key] ELSE default

(***************************************************************************)
(* IEEE-754 doubles of ssid_entropy.  Every double the function handles is *)
(* 0 or has magnitude in [2^-3, 8), hence is an integer number of units of *)
(* 2^-55; it is held as <<hi, lo>> = hi * 2^28 + lo units, hi below 2^31.  *)
(***************************************************************************)
Limb == 268435456     \* 2^28

\* p * math.log2(p) for p = count / length, as computed in doubles (it is
\* negative or zero): TermTable[length][count], in units of 2^-55.
TermTable ==
  <<
       <<<<0, 0>>>>,
       <<<<-67108864, 0>>, <<0, 0>>>>,
       <<<<-70910021, -251612780>>, <<-52341558, -145311620>>, <<0, 0>>>>,
       <<<<-67108864, 0>>, <<-67108864, 0>>, <<-41779042, -172068748>>, <<0, 0>>>>,
       <<<<-62328782, -186570704>>, <<-70970474, -51018860>>, <<-59348308, -160496204>>, <<-34566765, -263098998>>, <<0, 0>>>>,
       <<<<-57824632, -81067146>>, <<-70910021, -251612780>>, <<-67108864, 0>>, <<-52341558, -145311620>>, <<-29419900, -75350224>>, <<0, 0>>>>,
       <<<<-53828114, -50933276>>, <<-69308306, -25170708>>, <<-70314314, -97733144>>, <<-61920767, -165385188>>, <<-46537775, -163561274>>, <<-25584861, -233814210>>, <<0, 0>>>>,
       <<<<-50331648, 0>>, <<-67108864, 0>>, <<-71221169, -86034376>>, <<-67108864, 0>>, <<-56880794, -20946324>>, <<-41779042, -172068748>>, <<-22624336, -157795724>>, <<0, 0>>>>
  >>

\* The number of low bits a sum loses when rounded to 53 significant bits.
DropBits(hi) ==
    IF hi >= 1073741824 THEN 6
    ELSE IF hi >= 536870912 THEN 5
    ELSE IF hi >= 268435456 THEN 4
    ELSE IF hi >= 134217728 THEN 3
    ELSE IF hi >= 67108864 THEN 2
    ELSE IF hi >= 33554432 THEN 1
    ELSE 0

\* Round an exact sum to the nearest double, ties to even.
RoundDouble(hi, lo) ==
    LET q == 2 ^ DropBits(hi)
        r == lo % q
        kept == lo - r
        up == \/ 2 * r > q
              \/ (2 * r = q /\ (lo \div q) % 2 = 1)
        lo2 == IF up THEN kept + q ELSE kept
    IN  IF lo2 >= Limb THEN <<hi + 1, lo2 - Limb>> ELSE <<hi, lo2>>

\* entropy -= term: the exact difference, rounded to a double.
DoubleSub(a, t) ==
    LET lo == a[2] - t[2]
        hi == a[1] - t[1] + (IF lo >= Limb THEN 1 ELSE 0)
    IN  RoundDouble(hi, IF lo >= Limb THEN lo - Limb ELSE lo)

Zero == <<0, 0>>      \* 0.0

(***************************************************************************)
(* ssid_entropy (lines 50-62).  The dict freq keeps its keys in insertion  *)
(* order, so it is a sequence of <<character, count>> pairs in order of    *)
(* first occurrence.                                                       *)
(***************************************************************************)
\* A plausible slip: freq[ch] = 1 instead of freq.get(ch, 0) + 1.
FreqPutNoCount(freq, ch) ==
    IF \E i \in 1..Len(freq) : freq[i][1] = ch
    THEN freq
    ELSE Append(freq, <<ch, 1>>)

\* freq[ch] = freq.get(ch, 0) + 1
FreqPut(freq, ch) ==
    IF \E i \in 1..Len(freq) : freq[i][1] = ch
    THEN [i \in 1..Len(freq) |->
             IF freq[i][1] = ch THEN <<ch, freq[i][2] + 1>> ELSE freq[i]]
    ELSE Append(freq, <<ch, 1>>)

\* for ch in ssid: freq[ch] = ...
RECURSIVE FreqOf(_)
FreqOf(cs) ==
    IF cs = <<>> THEN <<>>
    ELSE FreqPut(FreqOf(SubSeq(cs, 1, Len(cs) - 1)), cs[Len(cs)])

\* for count in freq.values(): p = count / length; entropy -= p * log2(p)
RECURSIVE EntropySum(_, _, _)
EntropySum(freq, k, length) ==
    IF k = 0 THEN Zero
    ELSE DoubleSub(EntropySum(freq, k - 1, length), TermTable[length][freq[k][2]])

\* The result of a call: what it returned, or that it raised.
Returned(v) == [raised |-> FALSE, val |-> v]
RaisedTypeError == [raised |-> TRUE, val |-> Zero]

\* Iterating a dict yields its keys, each once: freq holds every key with
\* count 1 and len(ssid) is the number of keys (at most 8, as TermTable).
KeysFreq(d) == [i \in 1..Cardinality(DOMAIN d.o) |-> <<i, 1>>]

ssid_entropy(ssid) ==
    IF ~Truthy(ssid) THEN Returned(Zero)
    ELSE IF ssid.t = "str"
         THEN Returned(EntropySum(FreqOf(ssid.s), Len(FreqOf(ssid.s)), Len(ssid.s)))
    ELSE IF ssid.t = "obj"
         THEN Returned(EntropySum(KeysFreq(ssid), Cardinality(DOMAIN ssid.o),
                                  Cardinality(DOMAIN ssid.o)))
         ELSE RaisedTypeError     \* for ch in <a number>: not iterable

(***************************************************************************)
(* epoch_to_iso (lines 65-70).  A timestamp is the calendar record that    *)
(* datetime.isoformat() prints, in UTC; isoformat() prints the microsecond *)
(* part only when it is not 0.                                             *)
(***************************************************************************)
MicrosPerSecond == 1000000
SecondsPerDay == 86400
\* Day numbers (days since 1970-01-01) of 0001-01-01 and 9999-12-31, the
\* first and last dates a datetime holds.
MinDay == -719162
MaxDay == 2932896

\* The isoformat() of the instant `sod` seconds and `micro` microseconds into
\* day number `days`: the proleptic Gregorian date and the time of day.
IsoFormatAt(days, sod, micro) ==
    LET z == days + 719468
        era == z \div 146097
        doe == z - era * 146097
        yoe == (doe - doe \div 1460 + doe \div 36524 - doe \div 146096) \div 365
        doy == doe - (365 * yoe + yoe \div 4 - yoe \div 100)
        mp == (5 * doy + 2) \div 153
        d == doy - (153 * mp + 2) \div 5 + 1
        m == IF mp < 10 THEN mp + 3 ELSE mp - 9
        y == yoe + era * 400 + (IF m <= 2 THEN 1 ELSE 0)
    IN  [year |-> y, month |-> m, day |-> d,
         hour |-> sod \div 3600, minute |-> (sod % 3600) \div 60, second |-> sod % 60,
         microsecond |-> micro, tz |-> "+00:00"]

\* datetime.fromtimestamp(secs, tz=utc).isoformat() for whole seconds.
IsoFormat(secs) == IsoFormatAt(secs \div SecondsPerDay, secs % SecondsPerDay, 0)

NoTime == [year |-> 0, month |-> 0, day |-> 0, hour |-> 0, minute |-> 0, second |-> 0,
           microsecond |-> 0, tz |-> "none"]

DigitChars == <<"0", "1", "2", "3", "4", "5", "6", "7", "8", "9">>

\* The code points above ASCII that str.isspace() holds for; float() reads
\* each as a blank.
UnicodeSpaces ==
    {"U+0085", "U+00A0", "U+1680", "U+2000", "U+2001", "U+2002", "U+2003", "U+2004",
     "U+2005", "U+2006", "U+2007", "U+2008", "U+2009", "U+200A", "U+2028", "U+2029",
     "U+202F", "U+205F", "U+3000"}

\* The decimal digits above ASCII (Unicode category Nd), the digits 0..9 of
\* each script in order; float() reads each as its ASCII digit.
UnicodeDigits ==
   <<
      <<"U+0660", "U+0661", "U+0662", "U+0663", "U+0664",
        "U+0665", "U+0666", "U+0667", "U+0668", "U+0669">>,
      <<"U+06F0", "U+06F1", "U+06F2", "U+06F3", "U+06F4",
        "U+06F5", "U+06F6", "U+06F7", "U+06F8", "U+06F9">>,
      <<"U+07C0", "U+07C1", "U+07C2", "U+07C3", "U+07C4",
        "U+07C5", "U+07C6", "U+07C7", "U+07C8", "U+07C9">>,
      <<"U+0966", "U+0967", "U+0968", "U+0969", "U+096A",
        "U+096B", "U+096C", "U+096D", "U+096E", "U+096F">>,
      <<"U+09E6", "U+09E7", "U+09E8", "U+09E9", "U+09EA",
        "U+09EB", "U+09EC", "U+09ED", "U+09EE", "U+09EF">>,
      <<"U+0A66", "U+0A67", "U+0A68", "U+0A69", "U+0A6A",
        "U+0A6B", "U+0A6C", "U+0A6D", "U+0A6E", "U+0A6F">>,
      <<"U+0AE6", "U+0AE7", "U+0AE8", "U+0AE9", "U+0AEA",
        "U+0AEB", "U+0AEC", "U+0AED", "U+0AEE", "U+0AEF">>,
      <<"U+0B66", "U+0B67", "U+0B68", "U+0B69", "U+0B6A",
        "U+0B6B", "U+0B6C", "U+0B6D", "U+0B6E", "U+0B6F">>,
      <<"U+0BE6", "U+0BE7", "U+0BE8", "U+0BE9", "U+0BEA",
        "U+0BEB", "U+0BEC", "U+0BED", "U+0BEE", "U+0BEF">>,
      <<"U+0C66", "U+0C67", "U+0C68", "U+0C69", "U+0C6A",
        "U+0C6B", "U+0C6C", "U+0C6D", "U+0C6E", "U+0C6F">>,
      <<"U+0CE6", "U+0CE7", "U+0CE8", "U+0CE9", "U+0CEA",
        "U+0CEB", "U+0CEC", "U+0CED", "U+0CEE", "U+0CEF">>,
      <<"U+0D66", "U+0D67", "U+0D68", "U+0D69", "U+0D6A",
        "U+0D6B", "U+0D6C", "U+0D6D", "U+0D6E", "U+0D6F">>,
      <<"U+0DE6", "U+0DE7", "U+0DE8", "U+0DE9", "U+0DEA",
        "U+0DEB", "U+0DEC", "U+0DED", "U+0DEE", "U+0DEF">>,
      <<"U+0E50", "U+0E51", "U+0E52", "U+0E53", "U+0E54",
        "U+0E55", "U+0E56", "U+0E57", "U+0E58", "U+0E59">>,
      <<"U+0ED0", "U+0ED1", "U+0ED2", "U+0ED3", "U+0ED4",
        "U+0ED5", "U+0ED6", "U+0ED7", "U+0ED8", "U+0ED9">>,
      <<"U+0F20", "U+0F21", "U+0F22", "U+0F23", "U+0F24",
        "U+0F25", "U+0F26", "U+0F27", "U+0F28", "U+0F29">>,
      <<"U+1040", "U+1041", "U+1042", "U+1043", "U+1044",
        "U+1045", "U+1046", "U+1047", "U+1048", "U+1049">>,
      <<"U+1090", "U+1091", "U+1092", "U+1093", "U+1094",
        "U+1095", "U+1096", "U+1097", "U+1098", "U+1099">>,
      <<"U+17E0", "U+17E1", "U+17E2", "U+17E3", "U+17E4",
        "U+17E5", "U+17E6", "U+17E7", "U+17E8", "U+17E9">>,
      <<"U+1810", "U+1811", "U+1812", "U+1813", "U+1814",
        "U+1815", "U+1816", "U+1817", "U+1818", "U+1819">>,
      <<"U+1946", "U+1947", "U+1948", "U+1949", "U+194A",
        "U+194B", "U+194C", "U+194D", "U+194E", "U+194F">>,
      <<"U+19D0", "U+19D1", "U+19D2", "U+19D3", "U+19D4",
        "U+19D5", "U+19D6", "U+19D7", "U+19D8", "U+19D9">>,
      <<"U+1A80", "U+1A81", "U+1A82", "U+1A83", "U+1A84",
        "U+1A85", "U+1A86", "U+1A87", "U+1A88", "U+1A89">>,
      <<"U+1A90", "U+1A91", "U+1A92", "U+1A93", "U+1A94",
        "U+1A95", "U+1A96", "U+1A97", "U+1A98", "U+1A99">>,
      <<"U+1B50", "U+1B51", "U+1B52", "U+1B53", "U+1B54",
        "U+1B55", "U+1B56", "U+1B57", "U+1B58", "U+1B59">>,
      <<"U+1BB0", "U+1BB1", "U+1BB2", "U+1BB3", "U+1BB4",
        "U+1BB5", "U+1BB6", "U+1BB7", "U+1BB8", "U+1BB9">>,
      <<"U+1C40", "U+1C41", "U+1C42", "U+1C43", "U+1C44",
        "U+1C45", "U+1C46", "U+1C47", "U+1C48", "U+1C49">>,
      <<"U+1C50", "U+1C51", "U+1C52", "U+1C53", "U+1C54",
        "U+1C55", "U+1C56", "U+1C57", "U+1C58", "U+1C59">>,
      <<"U+A620", "U+A621", "U+A622", "U+A623", "U+A624",
        "U+A625", "U+A626", "U+A627", "U+A628", "U+A629">>,
      <<"U+A8D0", "U+A8D1", "U+A8D2", "U+A8D3", "U+A8D4",
        "U+A8D5", "U+A8D6", "U+A8D7", "U+A8D8", "U+A8D9">>,
      <<"U+A900", "U+A901", "U+A902", "U+A903", "U+A904",
        "U+A905", "U+A906", "U+A907", "U+A908", "U+A909">>,
      <<"U+A9D0", "U+A9D1", "U+A9D2", "U+A9D3", "U+A9D4",
        "U+A9D5", "U+A9D6", "U+A9D7", "U+A9D8", "U+A9D9">>,
      <<"U+A9F0", "U+A9F1", "U+A9F2", "U+A9F3", "U+A9F4",
        "U+A9F5", "U+A9F6", "U+A9F7", "U+A9F8", "U+A9F9">>,
      <<"U+AA50", "U+AA51", "U+AA52", "U+AA53", "U+AA54",
        "U+AA55", "U+AA56", "U+AA57", "U+AA58", "U+AA59">>,
      <<"U+ABF0", "U+ABF1", "U+ABF2", "U+ABF3", "U+ABF4",
        "U+ABF5", "U+ABF6", "U+ABF7", "U+ABF8", "U+ABF9">>,
      <<"U+FF10", "U+FF11", "U+FF12", "U+FF13", "U+FF14",
        "U+FF15", "U+FF16", "U+FF17", "U+FF18", "U+FF19">>,
      <<"U+104A0", "U+104A1", "U+104A2", "U+104A3", "U+104A4",
        "U+104A5", "U+104A6", "U+104A7", "U+104A8", "U+104A9">>,
      <<"U+10D30", "U+10D31", "U+10D32", "U+10D33", "U+10D34",
        "U+10D35", "U+10D36", "U+10D37", "U+10D38", "U+10D39">>,
      <<"U+11066", "U+11067", "U+11068", "U+11069", "U+1106A",
        "U+1106B", "U+1106C", "U+1106D", "U+1106E", "U+1106F">>,
      <<"U+110F0", "U+110F1", "U+110F2", "U+110F3", "U+110F4",
        "U+110F5", "U+110F6", "U+110F7", "U+110F8", "U+110F9">>,
      <<"U+11136", "U+11137", "U+11138", "U+11139", "U+1113A",
        "U+1113B", "U+1113C", "U+1113D", "U+1113E", "U+1113F">>,
      <<"U+111D0", "U+111D1", "U+111D2", "U+111D3", "U+111D4",
        "U+111D5", "U+111D6", "U+111D7", "U+111D8", "U+111D9">>,
      <<"U+112F0", "U+112F1", "U+112F2", "U+112F3", "U+112F4",
        "U+112F5", "U+112F6", "U+112F7", "U+112F8", "U+112F9">>,
      <<"U+11450", "U+11451", "U+11452", "U+11453", "U+11454",
        "U+11455", "U+11456", "U+11457", "U+11458", "U+11459">>,
      <<"U+114D0", "U+114D1", "U+114D2", "U+114D3", "U+114D4",
        "U+114D5", "U+114D6", "U+114D7", "U+114D8", "U+114D9">>,
      <<"U+11650", "U+11651", "U+11652", "U+11653", "U+11654",
        "U+11655", "U+11656", "U+11657", "U+11658", "U+11659">>,
      <<"U+116C0", "U+116C1", "U+116C2", "U+116C3", "U+116C4",
        "U+116C5", "U+116C6", "U+116C7", "U+116C8", "U+116C9">>,
      <<"U+11730", "U+11731", "U+11732", "U+11733", "U+11734",
        "U+11735", "U+11736", "U+11737", "U+11738", "U+11739">>,
      <<"U+118E0", "U+118E1", "U+118E2", "U+118E3", "U+118E4",
        "U+118E5", "U+118E6", "U+118E7", "U+118E8", "U+118E9">>,
      <<"U+11950", "U+11951", "U+11952", "U+11953", "U+11954",
        "U+11955", "U+11956", "U+11957", "U+11958", "U+11959">>,
      <<"U+11C50", "U+11C51", "U+11C52", "U+11C53", "U+11C54",
        "U+11C55", "U+11C56", "U+11C57", "U+11C58", "U+11C59">>,
      <<"U+11D50", "U+11D51", "U+11D52", "U+11D53", "U+11D54",
        "U+11D55", "U+11D56", "U+11D57", "U+11D58", "U+11D59">>,
      <<"U+11DA0", "U+11DA1", "U+11DA2", "U+11DA3", "U+11DA4",
        "U+11DA5", "U+11DA6", "U+11DA7", "U+11DA8", "U+11DA9">>,
      <<"U+16A60", "U+16A61", "U+16A62", "U+16A63", "U+16A64",
        "U+16A65", "U+16A66", "U+16A67", "U+16A68", "U+16A69">>,
      <<"U+16AC0", "U+16AC1", "U+16AC2", "U+16AC3", "U+16AC4",
        "U+16AC5", "U+16AC6", "U+16AC7", "U+16AC8", "U+16AC9">>,
      <<"U+16B50", "U+16B51", "U+16B52", "U+16B53", "U+16B54",
        "U+16B55", "U+16B56", "U+16B57", "U+16B58", "U+16B59">>,
      <<"U+1D7CE", "U+1D7CF", "U+1D7D0", "U+1D7D1", "U+1D7D2",
        "U+1D7D3", "U+1D7D4", "U+1D7D5", "U+1D7D6", "U+1D7D7">>,
      <<"U+1D7D8", "U+1D7D9", "U+1D7DA", "U+1D7DB", "U+1D7DC",
        "U+1D7DD", "U+1D7DE", "U+1D7DF", "U+1D7E0", "U+1D7E1">>,
      <<"U+1D7E2", "U+1D7E3", "U+1D7E4", "U+1D7E5", "U+1D7E6",
        "U+1D7E7", "U+1D7E8", "U+1D7E9", "U+1D7EA", "U+1D7EB">>,
      <<"U+1D7EC", "U+1D7ED", "U+1D7EE", "U+1D7EF", "U+1D7F0",
        "U+1D7F1", "U+1D7F2", "U+1D7F3", "U+1D7F4", "U+1D7F5">>,
      <<"U+1D7F6", "U+1D7F7", "U+1D7F8", "U+1D7F9", "U+1D7FA",
        "U+1D7FB", "U+1D7FC", "U+1D7FD", "U+1D7FE", "U+1D7FF">>,
      <<"U+1E140", "U+1E141", "U+1E142", "U+1E143", "U+1E144",
        "U+1E145", "U+1E146", "U+1E147", "U+1E148", "U+1E149">>,
      <<"U+1E2F0", "U+1E2F1", "U+1E2F2", "U+1E2F3", "U+1E2F4",
        "U+1E2F5", "U+1E2F6", "U+1E2F7", "U+1E2F8", "U+1E2F9">>,
      <<"U+1E950", "U+1E951", "U+1E952", "U+1E953", "U+1E954",
        "U+1E955", "U+1E956", "U+1E957", "U+1E958", "U+1E959">>,
      <<"U+1FBF0", "U+1FBF1", "U+1FBF2", "U+1FBF3", "U+1FBF4",
        "U+1FBF5", "U+1FBF6", "U+1FBF7", "U+1FBF8", "U+1FBF9">>
   >>

IsUnicodeDigit(c) ==
    \E b \in 1..Len(UnicodeDigits) : \E i \in 1..10 : UnicodeDigits[b][i] = c

UnicodeDigitVal(c) ==
    (CHOOSE i \in 1..10 : \E b \in 1..Len(UnicodeDigits) : UnicodeDigits[b][i] = c) - 1

\* What float() makes of one character before it parses: a blank of a
\* Unicode blank, the ASCII digit of a Unicode digit, the character otherwise.
ToAscii(c) ==
    IF c \in UnicodeSpaces THEN " "
    ELSE IF IsUnicodeDigit(c) THEN DigitChars[UnicodeDigitVal(c) + 1]
    ELSE c

IsDigit(c) == \E i \in 1..10 : DigitChars[i] = c
DigitVal(c) == (CHOOSE i \in 1..10 : DigitChars[i] = c) - 1

\* The ASCII white space float() strips from both ends: blank, \t, \n, \r,
\* form feed and vertical tab.
Spaces == {" ", "\t", "\n", "\r", "\f", "U+000B"}

Strip(cs) ==
    LET kept == {i \in 1..Len(cs) : cs[i] \notin Spaces}
    IN  IF kept = {} THEN <<>>
        ELSE SubSeq(cs, CHOOSE i \in kept : \A j \in kept : i <= j,
                        CHOOSE i \in kept : \A j \in kept : i >= j)

\* The text float() parses: every character made ASCII, the ends stripped.
Text(cs) == Strip([i \in 1..Len(cs) |-> ToAscii(cs[i])])

\* str.lower() on the letters of "infinity" and "nan".
Lower(c) ==
    CASE c = "I" -> "i" [] c = "N" -> "n" [] c = "F" -> "f" [] c = "T" -> "t"
      [] c = "Y" -> "y" [] c = "A" -> "a" [] OTHER -> c

Unsigned(cs) == IF cs # <<>> /\ cs[1] \in {"+", "-"} THEN Tail(cs) ELSE cs

\* float() accepts "inf", "infinity" and "nan" in any case, with a sign.
IsSpecial(cs) ==
    LET w == [i \in 1..Len(Unsigned(cs)) |-> Lower(Unsigned(cs)[i])]
    IN  w \in {<<"i", "n", "f">>, <<"n", "a", "n">>,
               <<"i", "n", "f", "i", "n", "i", "t", "y">>}

\* An exponent of ExpCap or more is read as ExpCap: with fewer than ExpCap
\* digits before it, the literal is then 0, or beyond every double, or below
\* every double, as it is with the exponent written.
ExpCap == 1000000000

\* The scanner of a float literal: [sign] digits [. [digits]] [e [sign] digits]
\* or [sign] . digits [e [sign] digits], one "_" allowed between two digits.
\* ds holds the digits read with the point removed, fd the number of them
\* after the point, ev the exponent read.
ScanStart == [st |-> "start", neg |-> FALSE, ds |-> <<>>, fd |-> 0, eneg |-> FALSE, ev |-> 0]
ScanBad == [ScanStart EXCEPT !.st = "bad"]

ScanStep(p, c) ==
    LET digit == IsDigit(c)
        d == IF digit THEN DigitVal(c) ELSE 0
        e == c \in {"e", "E"}
        sign == c \in {"+", "-"}
        int == [p EXCEPT !.st = "int", !.ds = Append(@, d)]
        frac == [p EXCEPT !.st = "fracd", !.ds = Append(@, d), !.fd = @ + 1]
        exp == [p EXCEPT !.st = "expd",
                         !.ev = IF @ >= ExpCap \div 10 THEN ExpCap ELSE 10 * @ + d]
    IN  CASE p.st = "start" ->
                 IF sign THEN [p EXCEPT !.st = "signed", !.neg = (c = "-")]
                 ELSE IF digit THEN int
                 ELSE IF c = "." THEN [p EXCEPT !.st = "dot"] ELSE ScanBad
          [] p.st = "signed" ->
                 IF digit THEN int
                 ELSE IF c = "." THEN [p EXCEPT !.st = "dot"] ELSE ScanBad
          [] p.st = "int" ->
                 IF digit THEN int
                 ELSE IF c = "_" THEN [p EXCEPT !.st = "int_"]
                 ELSE IF c = "." THEN [p EXCEPT !.st = "point"]
                 ELSE IF e THEN [p EXCEPT !.st = "exp"] ELSE ScanBad
          [] p.st = "int_" -> IF digit THEN int ELSE ScanBad
          [] p.st = "dot" -> IF digit THEN frac ELSE ScanBad
          [] p.st = "point" ->
                 IF digit THEN frac
                 ELSE IF e THEN [p EXCEPT !.st = "exp"] ELSE ScanBad
          [] p.st = "fracd" ->
                 IF digit THEN frac
                 ELSE IF c = "_" THEN [p EXCEPT !.st = "frac_"]
                 ELSE IF e THEN [p EXCEPT !.st = "exp"] ELSE ScanBad
          [] p.st = "frac_" -> IF digit THEN frac ELSE ScanBad
          [] p.st = "exp" ->
                 IF sign THEN [p EXCEPT !.st = "exps", !.eneg = (c = "-")]
                 ELSE IF digit THEN exp ELSE ScanBad
          [] p.st = "exps" -> IF digit THEN exp ELSE ScanBad
          [] p.st = "expd" ->
                 IF digit THEN exp
                 ELSE IF c = "_" THEN [p EXCEPT !.st = "exp_"] ELSE ScanBad
          [] p.st = "exp_" -> IF digit THEN exp ELSE ScanBad
          [] OTHER -> ScanBad

\* The scanner run over cs from state p, the text read by halves; nothing
\* leads out of the state "bad".
RECURSIVE Scan(_, _)
Scan(p, cs) ==
    IF p.st = "bad" \/ cs = <<>> THEN p
    ELSE IF Len(cs) = 1 THEN ScanStep(p, cs[1])
    ELSE Scan(Scan(p, SubSeq(cs, 1, Len(cs) \div 2)),
              SubSeq(cs, Len(cs) \div 2 + 1, Len(cs)))

ScanAccepts(p) == p.st \in {"int", "point", "fracd", "expd"}

\* float(ts): whether it succeeds.  A number is a float already or an int
\* float() converts; a string is parsed; any other value raises TypeError.
FloatOk(ts) ==
    \/ ts.t = "num"
    \/ ts.t = "str" /\ (IsSpecial(Text(ts.s)) \/ ScanAccepts(Scan(ScanStart, Text(ts.s))))

\* What is written: (-1)^neg * (the number written ds) * 10^k, or an
\* infinity or a NaN.
LiteralOf(p) ==
    [special |-> FALSE, neg |-> p.neg, ds |-> p.ds,
     k |-> (IF p.eneg THEN -p.ev ELSE p.ev) - p.fd]

Literal(ts) ==
    IF ts.t = "num"
    THEN [special |-> FALSE, neg |-> ts.n < 0,
          ds |-> DigitsOf(IF ts.n < 0 THEN -ts.n ELSE ts.n), k |-> ts.x]
    ELSE IF IsSpecial(Text(ts.s))
    THEN [special |-> TRUE, neg |-> FALSE, ds |-> <<>>, k |-> 0]
    ELSE LiteralOf(Scan(ScanStart, Text(ts.s)))

(***************************************************************************)
(* The double float() returns is the one nearest to what is written, ties  *)
(* to the even mantissa of 53 bits.  A double is held as                   *)
(*   kind   "finite", or "beyond": an infinity, a NaN, or a magnitude past *)
(*          the end of day MaxDay, for all of which fromtimestamp raises   *)
(*   neg    its sign                                                       *)
(*   whole  its whole seconds, as <<days, second of the day>>              *)
(*   frac   its fraction of a second: the decimal digits after the point   *)
(*          (a double's fraction has finitely many)                        *)
(***************************************************************************)
Beyond(neg) == [kind |-> "beyond", neg |-> neg, whole |-> <<0, 0>>, frac |-> <<>>]
Finite(neg, whole, frac) == [kind |-> "finite", neg |-> neg, whole |-> whole, frac |-> frac]

\* w * base + x, for w = <<days, second of the day>>.
Shift(w, base, x) ==
    <<base * w[1] + (base * w[2] + x) \div SecondsPerDay, (base * w[2] + x) % SecondsPerDay>>

\* The whole number written by digits i..last of ds appended to w; the
\* reading stops once the days are beyond MaxDay.
RECURSIVE WholePart(_, _, _, _)
WholePart(ds, i, last, w) ==
    IF i > last \/ w[1] > MaxDay THEN w
    ELSE WholePart(ds, i + 1, last, Shift(w, 10, DigitAt(ds, i)))

RECURSIVE IntPow2(_)
IntPow2(j) == IF j = 0 THEN 1 ELSE 2 * IntPow2(j - 1)

\* The number of bits of a natural number below 2^31.
IntBitLength(n) == Cardinality({j \in 0..30 : IntPow2(j) <= n})

\* The number of bits of a whole number of seconds that is not beyond MaxDay
\* (less than 2^38 seconds): a day is 675 * 2^7 seconds, so the seconds
\* without their last 7 bits are 675 * days + (second of the day) \div 2^7.
BitLength(w) ==
    IF 675 * w[1] + w[2] \div 128 > 0
    THEN 7 + IntBitLength(675 * w[1] + w[2] \div 128)
    ELSE IntBitLength(w[2])

\* One binary digit of a decimal fraction f: 2 * f is written by the same
\* number of digits, and the bit is 1 when f is 0.5 or more.
Doubled(f) ==
    SubSeq([i \in 1..Len(f) |->
               ((2 * f[i]) % 10) + (IF DigitAt(f, i + 1) >= 5 THEN 1 ELSE 0)], 1, Len(f))

DoubleStep(st) ==
    [f |-> Doubled(st.f), bits |-> Append(st.bits, IF DigitAt(st.f, 1) >= 5 THEN 1 ELSE 0)]

\* The binary digits of the fraction st.f appended to st.bits, until there
\* are n of them: first half of those that are missing, then the rest.
RECURSIVE Doublings(_, _)
Doublings(st, n) ==
    IF Len(st.bits) >= n THEN st
    ELSE IF Len(st.bits) + 1 = n THEN DoubleStep(st)
    ELSE Doublings(Doublings(st, (Len(st.bits) + n) \div 2), n)

\* The number of 0 bits before the first 1 bit; Len(bits) when all are 0.
LeadingZeros(bits) == Cardinality({i \in 1..Len(bits) : \A j \in 1..i : bits[j] = 0})

\* The mantissa of a double has 53 bits.
MantissaBits == 53
\* A fraction below 2^-21 is less than half a microsecond, and so is its double.
TinyBits == 21

\* The number of bits of the fraction f that the double keeps, next to a
\* whole part of `length` bits; TinyBits when f is below 2^-TinyBits and there
\* is no whole part.
KeptBits(length, f) ==
    IF length > 0 THEN MantissaBits - length
    ELSE LeadingZeros(Doublings([f |-> f, bits |-> <<>>], TinyBits).bits) + MantissaBits

\* bits + 1 in the last place (bits holds a 0).
Incremented(bits) ==
    [i \in 1..Len(bits) |->
        IF \E j \in (i + 1)..Len(bits) : bits[j] = 0 THEN bits[i]
        ELSE IF bits[i] = 0 THEN 1 ELSE 0]

\* whole + 1 second.
NextSecond(whole) ==
    IF whole[2] + 1 = SecondsPerDay THEN <<whole[1] + 1, 0>> ELSE <<whole[1], whole[2] + 1>>

\* The double of whole + 0.bits..., where bits holds the kept bits and then
\* the first bit dropped, and sticky says that a later bit is 1: rounded to
\* the nearest, a tie to the even last kept bit.
Nearest(neg, whole, bits, sticky) ==
    LET n == Len(bits) - 1
        kept == SubSeq(bits, 1, n)
    IN  IF bits[n + 1] = 0 \/ (~sticky /\ bits[n] = 0)
        THEN Finite(neg, whole, Decimal(kept, <<>>))
        ELSE IF \A i \in 1..n : bits[i] = 1
        THEN Finite(neg, NextSecond(whole), <<>>)
        ELSE Finite(neg, whole, Decimal(Incremented(kept), <<>>))

NonZero(f) == \E i \in 1..Len(f) : f[i] # 0

Rounding(neg, whole, st) == Nearest(neg, whole, st.bits, NonZero(st.f))

\* The double of whole + 0.f of which n bits of the fraction are kept.
Keeping(neg, whole, f, n) ==
    IF n = TinyBits + MantissaBits THEN Finite(neg, <<0, 0>>, <<>>)
    ELSE Rounding(neg, whole, Doublings([f |-> f, bits |-> <<>>], n + 1))

\* The double of whole + 0.f.  A whole number below 2^53 is a double.
DoubleOf(neg, whole, f) ==
    IF whole[1] > MaxDay THEN Beyond(neg)
    ELSE IF ~NonZero(f) THEN Finite(neg, whole, <<>>)
    ELSE Keeping(neg, whole, f, KeptBits(BitLength(whole), f))

\* The double of the number written ds with `point` digits before the
\* point, whose first digit that is not 0 is digit `first`.  What is written
\* below 10^-7 is below 2^-TinyBits.
Written(neg, ds, point, first) ==
    IF first = 0 \/ first - point > 7 THEN Finite(neg, <<0, 0>>, <<>>)
    ELSE DoubleOf(neg, WholePart(ds, first, point, <<0, 0>>), FractionOf(ds, point))

ToDouble(l) ==
    IF l.special THEN Beyond(l.neg)
    ELSE Written(l.neg, l.ds, Len(l.ds) + l.k, FirstNonZero(l.ds))

\* float(ts): the value.
FloatVal(ts) == ToDouble(Literal(ts))

(***************************************************************************)
(* datetime.fromtimestamp(x): the fraction of the double times 10^6,       *)
(* rounded to a double by the multiplication, is rounded to the nearest    *)
(* whole number of microseconds, a tie to the even one.                    *)
(***************************************************************************)
\* The first six digits after digit `point` of ds, as a number.
SixDigits(ds, point) ==
    (DigitAt(ds, point + 1) * 100000 + DigitAt(ds, point + 2) * 10000)
    + (DigitAt(ds, point + 3) * 1000 + DigitAt(ds, point + 4) * 100)
    + (DigitAt(ds, point + 5) * 10 + DigitAt(ds, point + 6))

\* 0.5 + 2^-m, for m > 3.
AboveHalf(m) == <<5>> \o Tail(HalfPow(m))

\* 1 - 0.f, for a fraction f that is not 0.
Complement(f) ==
    [i \in 1..Len(f) |->
        IF \E j \in (i + 1)..Len(f) : f[j] # 0 THEN 9 - f[i]
        ELSE IF f[i] # 0 THEN 10 - f[i] ELSE 0]

\* The double nearest to n + 0.f lies above n + 0.5, below it, or is n + 0.5:
\* n + 0.5 is a double, and the doubles next to it are 2^-up above it and
\* 2^-down below it; what lies within half of that rounds to n + 0.5.
RoundMicros(n, f, up, down) ==
    IF ~NonZero(f) THEN n
    ELSE IF Greater(f, AboveHalf(up + 1)) THEN n + 1
    ELSE IF Greater(Complement(f), AboveHalf(down + 1)) THEN n
    ELSE IF n % 2 = 0 THEN n ELSE n + 1

\* The doubles around n + 0.5: those of its binade are 2^-(52 - e) apart for
\* 2^e <= n + 0.5 < 2^(e + 1); below 0.5 they are half as far apart.
GapsAround(n, f) ==
    IF n = 0 THEN RoundMicros(n, f, MantissaBits, MantissaBits + 1)
    ELSE RoundMicros(n, f, MantissaBits - IntBitLength(n), MantissaBits - IntBitLength(n))

\* The microseconds of the fraction whose decimal digits are y;
\* MicrosPerSecond when it rounds up to a whole second.
Micros(y) == GapsAround(SixDigits(y, 0), SubSeq(y, 7, Len(y)))

\* <<days, second of the day>> and microseconds put together, with the carry
\* of a fraction that rounded up to a whole second.
Carry(whole, us) ==
    IF us < MicrosPerSecond THEN [d |-> whole[1], s |-> whole[2], micro |-> us]
    ELSE IF whole[2] + 1 = SecondsPerDay THEN [d |-> whole[1] + 1, s |-> 0, micro |-> 0]
    ELSE [d |-> whole[1], s |-> whole[2] + 1, micro |-> 0]

\* The instant `a` after the epoch, or before it when neg: day number, second
\* of the day, microsecond.  A negative instant counts down from the epoch.
Signed(neg, a) ==
    IF ~neg \/ (a.d = 0 /\ a.s = 0 /\ a.micro = 0)
    THEN [days |-> a.d, sod |-> a.s, micro |-> a.micro]
    ELSE IF a.s = 0 /\ a.micro = 0
    THEN [days |-> -a.d, sod |-> 0, micro |-> 0]
    ELSE [days |-> -a.d - 1,
          sod |-> SecondsPerDay - a.s - (IF a.micro > 0 THEN 1 ELSE 0),
          micro |-> IF a.micro > 0 THEN MicrosPerSecond - a.micro ELSE 0]

\* The instant of a finite double.
Instant(v) == Signed(v.neg, Carry(v.whole, Micros(v.frac)))

\* The years 1..9999, outside which datetime.fromtimestamp raises.
InDatetimeRange(i) == i.days >= MinDay /\ i.days <= MaxDay

\* fromtimestamp(...).isoformat() of an instant, or now() when it raised.
Stamp(i, now) ==
    IF InDatetimeRange(i) THEN IsoFormatAt(i.days, i.sod, i.micro) ELSE IsoFormat(now)

\* datetime.fromtimestamp raises for an infinity, a NaN and a double beyond
\* MaxDay too.
FromTimestamp(v, now) ==
    IF v.kind = "finite" THEN Stamp(Instant(v), now) ELSE IsoFormat(now)

\* try: fromtimestamp(float(ts)) except Exception: datetime.now(utc)
epoch_to_iso(ts, now) ==
    IF FloatOk(ts) THEN FromTimestamp(FloatVal(ts), now) ELSE IsoFormat(now)

(***************************************************************************)
(* build_feature_doc (lines 92-162).                                       *)
(***************************************************************************)
KeyPrefix == "kismet.device.base."

\* def base(field, default=None): device.get(f"kismet.device.base.{field}", default)
base(device, field, default) == DictGet(device, KeyPrefix \o field, default)

\* if not bssid: return None
SkipsDevice(bssid) == ~Truthy(bssid)

\* "@timestamp": epoch_to_iso(last_time) if last_time else sensor_time_iso
DocTimestamp(last_time, sensor_time_iso, now) ==
    IF Truthy(last_time) THEN epoch_to_iso(last_time, now) ELSE sensor_time_iso

\* epoch_to_iso(t) if t else None
SeenTime(t, now) == IF Truthy(t) THEN epoch_to_iso(t, now) ELSE NoTime

\* num_clients = base("num_clients", 0)
NumClients(device) == base(device, "num_clients", Num(0))

\* The dict of lines 133-160.  nows are the readings datetime.now() gives to
\* the three epoch_to_iso calls, in the order of the dict literal.
FeatureDoc(device, bssid, ssid, ssid_ent, sensor_time_iso, nows) ==
    [timestamp |-> DocTimestamp(base(device, "last_time", None), sensor_time_iso, nows[1]),
     sensor_id |-> SENSOR_ID,
     sensor_site |-> SENSOR_SITE,
     bssid |-> bssid,
     ssid |-> ssid,
     ssid_entropy |-> ssid_ent,
     manuf |-> base(device, "manuf", None),
     channel |-> base(device, "channel", None),
     phyname |-> base(device, "phyname", None),
     first_seen |-> SeenTime(base(device, "first_time", None), nows[2]),
     last_seen |-> SeenTime(base(device, "last_time", None), nows[3]),
     rssi_last |-> DictGet(device, "kismet.common.signal.last", None),
     rssi_min |-> DictGet(device, "kismet.common.signal.min", None),
     rssi_max |-> DictGet(device, "kismet.common.signal.max", None),
     rssi_mean |-> DictGet(device, "kismet.common.signal.avg", None),
     client_count |-> NumClients(device),
     deauth_count_approx |-> None,
     probe_req_count_approx |-> None]

NoDoc == [timestamp |-> NoTime, sensor_id |-> "", sensor_site |-> "", bssid |-> None,
          ssid |-> None, ssid_entropy |-> Zero, manuf |-> None, channel |-> None,
          phyname |-> None, first_seen |-> NoTime, last_seen |-> NoTime,
          rssi_last |-> None, rssi_min |-> None, rssi_max |-> None, rssi_mean |-> None,
          client_count |-> None, deauth_count_approx |-> None,
          probe_req_count_approx |-> None]

\* What a call of build_feature_doc does: returns a dict ("doc"), returns
\* None ("skip"), or raises ("raise": AttributeError of device.get on a value
\* that is no dict, TypeError of ssid_entropy on a name that is no string).
build_feature_doc(device, sensor_time_iso, nows) ==
    IF device.t # "obj" THEN [kind |-> "raise", doc |-> NoDoc]
    ELSE LET bssid == base(device, "macaddr", None)
             ssid == PyOr(base(device, "name", None), base(device, "commonname", None))
             ent == IF Truthy(ssid) THEN ssid_entropy(ssid) ELSE Returned(Zero)
         IN  IF SkipsDevice(bssid) THEN [kind |-> "skip", doc |-> NoDoc]
             ELSE IF ent.raised THEN [kind |-> "raise", doc |-> NoDoc]
             ELSE [kind |-> "doc",
                   doc |-> FeatureDoc(device, bssid, ssid, ent.val, sensor_time_iso, nows)]

(***************************************************************************)
(* bulk_index (lines 180-196).                                             *)
(***************************************************************************)
\* action = {"_index": ES_INDEX, "_source": doc}; if ES_PIPELINE: action["pipeline"] = ...
BulkAction(doc, pipeline) ==
    [index |-> ES_INDEX, source |-> doc,
     has_pipeline |-> Truthy(pipeline),
     pipeline |-> IF Truthy(pipeline) THEN pipeline ELSE None]

\* A plausible slip: the early return of bulk_index dropped.
BulkAlwaysWrites(ds) == TRUE

\* if not docs: return   (otherwise helpers.bulk is called)
BulkWrites(ds) == ds # <<>>

\* What bulk_index hands to helpers.bulk.
bulk_index(ds, pipeline) ==
    [writes |-> BulkWrites(ds),
     actions |-> IF BulkWrites(ds)
                 THEN [i \in 1..Len(ds) |-> BulkAction(ds[i], pipeline)]
                 ELSE <<>>]

(***************************************************************************)
(* main (lines 201-233): the poll loop.                                    *)
(***************************************************************************)
\* What requests.get / raise_for_status / resp.json raise (lines 85-87).
FetchErrors == {"ConnectionError", "Timeout", "HTTPError", "JSONDecodeError"}
\* What helpers.bulk raises (line 195).
BulkErrors == {"BulkIndexError", "ConnectionError"}

\* issubclass(e, Exception): KeyboardInterrupt derives from BaseException only.
IsException(e) == e # "KeyboardInterrupt"

\* The statements of the try block of lines 209-221.
InTry(at) == at \in {"fetch", "transform"}

\* A plausible slip: "continue" in the handler, the sleep skipped after an error.
RaiseTargetSkipsSleep(at, e) ==
    IF InTry(at) /\ IsException(e) THEN "fetch" ELSE "exited"

\* A plausible slip: only the fetch is guarded and its failure falls through
\* to the rest of the cycle.
RaiseTargetFetchFallsThrough(at, e) ==
    IF InTry(at) /\ IsException(e)
    THEN (IF at = "fetch" THEN "transform" ELSE "sleep")
    ELSE "exited"

\* A plausible slip: a bare "except:", which catches KeyboardInterrupt too.
RaiseTargetBareExcept(at, e) == IF InTry(at) THEN "sleep" ELSE "exited"

\* Where control goes when e is raised at `at`: "except Exception" (line 223)
\* catches it inside the try block and falls to time.sleep (line 226);
\* anything else leaves main.
RaiseTarget(at, e) ==
    IF InTry(at) /\ IsException(e) THEN "sleep" ELSE "exited"

\* The module level (lines 229-233): KeyboardInterrupt out of main is caught
\* and logged, anything else ends the process with a traceback.
ExitStatusOf(target, e) ==
    IF target # "exited" THEN "running"
    ELSE IF e = "KeyboardInterrupt" THEN "clean" ELSE "traceback"

\* A plausible slip: try/except around each device, the bad one skipped.
OnBuildErrorSkipsDevice(i) == [pc |-> "transform", idx |-> i + 1]

\* build_feature_doc raised inside the for loop: the loop is left.
OnBuildError(i) == [pc |-> RaiseTarget("transform", "AttributeError"), idx |-> i]

\* The devices a Kismet response holds in the loop model.
DevWithName == Obj(("kismet.device.base.macaddr" :> Str(<<"A", "A">>))
                   @@ ("kismet.device.base.name" :> Str(<<"a", "b">>)))
DevBare == Obj("kismet.device.base.macaddr" :> Str(<<"B", "B">>))
DevNoMac == Obj("kismet.device.base.name" :> Str(<<"a">>))
DevBadName == Obj(("kismet.device.base.macaddr" :> Str(<<"C", "C">>))
                  @@ ("kismet.device.base.name" :> Num(7)))
DevNotDict == Str(<<"x">>)
\* The address in the nested convention: a sub-object under "kismet.device.base".
DevNested == Obj("kismet.device.base" :> Obj("macaddr" :> Str(<<"D", "D">>)))
\* A name that decodes to 0.0.
DevZeroName == Obj(("kismet.device.base.macaddr" :> Str(<<"E", "E">>))
                   @@ ("kismet.device.base.name" :> Dec(1, -400)))
LoopDevices ==
    {DevWithName, DevBare, DevNoMac, DevBadName, DevNotDict, DevNested, DevZeroName}

\* resp.json(): a JSON array of devices, or a value that is no array (null).
JsonArray(a) == [t |-> "arr", a |-> a]
JsonNull == [t |-> "null", a |-> <<>>]
Unset == [t |-> "unset", a |-> <<>>]
Responses ==
    {JsonNull} \cup
    {JsonArray(a) : a \in UNION {[1..k -> LoopDevices] : k \in 0..MaxDevices}}

PipelineChoices == {None, Str(<<"p">>)}

NewCycle == [fetch |-> "none", build |-> "none", deliver |-> "none",
             built |-> 0, bulkN |-> 0, actions |-> <<>>]
Summary(c) == [fetch |-> c.fetch, build |-> c.build, deliver |-> c.deliver,
               built |-> c.built, bulkN |-> c.bulkN]

LoopInit ==
    /\ pc = "fetch"
    /\ clock = 0
    /\ es_pipeline \in PipelineChoices
    /\ sensor_now_iso = NoTime
    /\ devices = Unset
    /\ idx = 0
    /\ docs = <<>>
    /\ exitStatus = "running"
    /\ nFetch = 0
    /\ nSleep = 0
    /\ cyc = NewCycle
    /\ prev = Summary(NewCycle)
    /\ interrupted = "no"

\* The process has ended: its locals are gone.
Exit(e) ==
    /\ pc' = "exited"
    /\ exitStatus' = ExitStatusOf("exited", e)
    /\ sensor_now_iso' = NoTime
    /\ devices' = Unset
    /\ idx' = 0
    /\ docs' = <<>>

\* e is raised at position pc; c is the cycle record once it is raised.
Raise(e, c) ==
    LET target == RaiseTarget(pc, e)
    IN  /\ cyc' = c
        /\ IF target = "exited"
           THEN Exit(e)
           ELSE /\ pc' = target
                /\ exitStatus' = "running"
                /\ UNCHANGED <<sensor_now_iso, devices, idx, docs>>

\* Lines 208-211, the fetch succeeds.
FetchOk ==
    /\ pc = "fetch" /\ nFetch < MaxCycles
    /\ \E resp \in Responses :
          /\ sensor_now_iso' = IsoFormat(clock)
          /\ devices' = resp
          /\ docs' = <<>>
          /\ idx' = 1
    /\ pc' = "transform"
    /\ nFetch' = nFetch + 1
    /\ cyc' = [NewCycle EXCEPT !.fetch = "ok"]
    /\ UNCHANGED <<clock, es_pipeline, exitStatus, nSleep, prev, interrupted>>

\* Lines 208-210, get_kismet_devices is called and raises: one of the fetch
\* errors, or KeyboardInterrupt when Ctrl+C arrives while requests.get blocks.
FetchRaise ==
    /\ pc = "fetch" /\ nFetch < MaxCycles
    /\ \E e \in FetchErrors \cup {"KeyboardInterrupt"} :
          LET target == RaiseTarget("fetch", e)
          IN  /\ cyc' = [NewCycle EXCEPT !.fetch = e]
              /\ interrupted' = IF e = "KeyboardInterrupt" THEN "requests.get"
                                ELSE interrupted
              /\ IF target = "exited"
                 THEN Exit(e)
                 ELSE /\ pc' = target
                      /\ exitStatus' = "running"
                      /\ sensor_now_iso' = IsoFormat(clock)
                      /\ UNCHANGED <<devices, idx, docs>>
    /\ nFetch' = nFetch + 1
    /\ UNCHANGED <<clock, es_pipeline, nSleep, prev>>

\* Line 213 on a response that is no array: "for dev in None" raises TypeError.
IterRaise ==
    /\ pc = "transform" /\ devices.t # "arr"
    /\ Raise("TypeError", [cyc EXCEPT !.build = "raised"])
    /\ UNCHANGED <<clock, es_pipeline, nFetch, nSleep, prev, interrupted>>

\* Lines 213-216, one device.
BuildStep ==
    /\ pc = "transform" /\ devices.t = "arr" /\ idx <= Len(devices.a)
    /\ LET r == build_feature_doc(devices.a[idx], sensor_now_iso, <<clock, clock, clock>>)
       IN  \/ /\ r.kind = "doc"
              /\ docs' = Append(docs, r.doc)
              /\ idx' = idx + 1
              /\ cyc' = [cyc EXCEPT !.built = @ + 1]
              /\ UNCHANGED pc
           \/ /\ r.kind = "skip"
              /\ idx' = idx + 1
              /\ UNCHANGED <<pc, docs, cyc>>
           \/ /\ r.kind = "raise"
              /\ pc' = OnBuildError(idx).pc
              /\ idx' = OnBuildError(idx).idx
              /\ cyc' = [cyc EXCEPT !.build = "raised"]
              /\ UNCHANGED docs
    /\ UNCHANGED <<clock, es_pipeline, sensor_now_iso, devices, exitStatus,
                   nFetch, nSleep, prev, interrupted>>

AtDeliver == pc = "transform" /\ devices.t = "arr" /\ idx > Len(devices.a)

\* Lines 218-219: bulk_index(es, docs); helpers.bulk is called with the
\* actions and returns, raises one of the bulk errors, or raises
\* KeyboardInterrupt when Ctrl+C arrives while it blocks.
Deliver ==
    /\ AtDeliver /\ docs # <<>>
    /\ LET b == bulk_index(docs, es_pipeline)
           issued == [cyc EXCEPT !.bulkN = IF b.writes THEN @ + 1 ELSE @,
                                 !.actions = IF b.writes THEN b.actions ELSE @]
       IN  \/ /\ cyc' = [issued EXCEPT !.deliver = IF b.writes THEN "ok" ELSE "noop"]
              /\ pc' = "sleep"
              /\ UNCHANGED <<sensor_now_iso, devices, idx, docs, exitStatus, interrupted>>
           \/ /\ b.writes
              /\ \E e \in BulkErrors : Raise(e, [issued EXCEPT !.deliver = "raised"])
              /\ UNCHANGED interrupted
           \/ /\ b.writes
              /\ interrupted' = "helpers.bulk"
              /\ Raise("KeyboardInterrupt", [issued EXCEPT !.deliver = "interrupted"])
    /\ UNCHANGED <<clock, es_pipeline, nFetch, nSleep, prev>>

\* Lines 218-221: nothing to index.
DeliverNothing ==
    /\ AtDeliver /\ docs = <<>>
    /\ cyc' = [cyc EXCEPT !.deliver = "skipped"]
    /\ pc' = "sleep"
    /\ UNCHANGED <<clock, es_pipeline, sensor_now_iso, devices, idx, docs, exitStatus,
                   nFetch, nSleep, prev, interrupted>>

\* Line 226: the cycle is over once the sleep returns.
Sleep ==
    /\ pc = "sleep"
    /\ clock' = clock + POLL_INTERVAL_SEC
    /\ nSleep' = nSleep + 1
    /\ pc' = "fetch"
    /\ prev' = Summary(cyc)
    /\ cyc' = NewCycle
    /\ UNCHANGED <<es_pipeline, sensor_now_iso, devices, idx, docs, exitStatus,
                   nFetch, interrupted>>

\* Ctrl+C while main is at pc, between two calls that leave the process (the
\* statements of the transform, the start of a fetch) or inside time.sleep,
\* which then does not complete.
Interrupt ==
    /\ pc \in {"fetch", "transform", "sleep"}
    /\ interrupted' = pc
    /\ Raise("KeyboardInterrupt", cyc)
    /\ UNCHANGED <<clock, es_pipeline, nFetch, nSleep, prev>>

(***************************************************************************)
(* Harness of build_feature_doc: one call on a device record drawn from    *)
(* the combinations below, with the caller's cycle time bSensor and the    *)
(* clock readings bNows of the three epoch_to_iso calls.                   *)
(***************************************************************************)
MacChoices == {Absent, None, Str(<<>>), Str(<<"A", "A">>), Num(5), Num(0), Dec(1, -400)}
NestedChoices == {Absent, Obj("macaddr" :> Str(<<"B", "B">>))}
NameChoices == {Absent, Str(<<>>), Str(<<"a", "b">>), Num(7), Dec(1, -400),
                Obj(("a" :> Num(1)) @@ ("b" :> Num(2)))}
CommonNameChoices == {Absent, Str(<<"c">>)}
LastTimeChoices ==
    {Absent, None, Num(0), Num(75), Dec(15, -1), Huge, Dec(1, -400),
     Str(<<>>), Obj(EmptyMap), Obj("a" :> Num(1)),
     Str(<<"1", "2">>), Str(<<"a", "b">>), Str(<<"1", ".", "5">>), Str(<<"-", "5">>),
     Str(<<" ", "1", "2", " ">>), Str(<<"1", "e", "3">>), Str(<<"n", "a", "n">>),
     Str(<<"1", "2", "U+00A0">>), Str(<<"1", "e", "4", "0", "0">>),
     Str(<<"1", "7", "0", "0", "0", "0", "0", "0", "0", "0", ".",
           "1", "2", "3", "4", "5", "7", "5">>)}
FirstTimeChoices == {Absent, Num(5), Str(<<"a">>), Str(<<"1", "_", "0">>), Str(<<"\f", "5">>)}

\* channel, manufacturer, phy, signal statistics and client count, all or none.
Extras(on) ==
    IF on
    THEN ("kismet.device.base.channel" :> Num(36))
         @@ ("kismet.device.base.manuf" :> Str(<<"m">>))
         @@ ("kismet.device.base.phyname" :> Str(<<"w">>))
         @@ ("kismet.common.signal.last" :> Num(-50))
         @@ ("kismet.common.signal.min" :> Num(-70))
         @@ ("kismet.common.signal.max" :> Num(-40))
         @@ ("kismet.common.signal.avg" :> Num(-55))
         @@ ("kismet.device.base.num_clients" :> Num(3))
    ELSE EmptyMap

DeviceOf(mac, nested, name, common, last, first, extras) ==
    Obj(Opt("kismet.device.base.macaddr", mac)
        @@ Opt("kismet.device.base", nested)
        @@ Opt("kismet.device.base.name", name)
        @@ Opt("kismet.device.base.commonname", common)
        @@ Opt("kismet.device.base.last_time", last)
        @@ Opt("kismet.device.base.first_time", first)
        @@ Extras(extras))

BuilderDevices ==
    {DeviceOf(mac, nested, name, common, last, first, extras) :
        mac \in MacChoices, nested \in NestedChoices, name \in NameChoices,
        common \in CommonNameChoices, last \in LastTimeChoices,
        first \in FirstTimeChoices, extras \in BOOLEAN}
    \cup {DevNotDict, None, Num(1)}

NotCalled == [done |-> FALSE, r |-> [kind |-> "none", doc |-> NoDoc]]

BuilderIdle ==
    /\ bDevice = None
    /\ bSensor = 0
    /\ bNows = <<0, 0, 0>>
    /\ bResult = NotCalled

BuilderInit ==
    /\ bDevice \in BuilderDevices
    /\ bSensor = 100
    /\ bNows \in {n \in [1..3 -> bSensor..(bSensor + MaxNowDelay)] :
                     n[1] <= n[2] /\ n[2] <= n[3]}
    /\ bResult = NotCalled

CallBuild ==
    /\ ~bResult.done
    /\ bResult' = [done |-> TRUE, r |-> build_feature_doc(bDevice, IsoFormat(bSensor), bNows)]
    /\ UNCHANGED <<bDevice, bSensor, bNows>>

(***************************************************************************)
(* Harness of ssid_entropy: one call on a string over three characters.    *)
(***************************************************************************)
Alphabet == {"a", "b", "c"}
Strings == UNION {[1..k -> Alphabet] : k \in 0..MaxLen}

EntropyNotCalled == [done |-> FALSE, r |-> Returned(Zero)]

EntropyIdle ==
    /\ eSsid = <<>>
    /\ eResult = EntropyNotCalled

EntropyInit ==
    /\ eSsid \in Strings
    /\ eResult = EntropyNotCalled

CallEntropy ==
    /\ ~eResult.done
    /\ eResult' = [done |-> TRUE, r |-> ssid_entropy(Str(eSsid))]
    /\ UNCHANGED eSsid

(***************************************************************************)
(* Specifications.                                                         *)
(***************************************************************************)
LoopIdle ==
    /\ pc = "fetch" /\ clock = 0 /\ es_pipeline = None /\ sensor_now_iso = NoTime
    /\ devices = Unset /\ idx = 0 /\ docs = <<>> /\ exitStatus = "running"
    /\ nFetch = 0 /\ nSleep = 0 /\ cyc = NewCycle /\ prev = Summary(NewCycle)
    /\ interrupted = "no"

Init == LoopInit /\ BuilderIdle /\ EntropyIdle

Next ==
    \/ FetchOk /\ UNCHANGED <<builderVars, entropyVars>>
    \/ FetchRaise /\ UNCHANGED <<builderVars, entropyVars>>
    \/ IterRaise /\ UNCHANGED <<builderVars, entropyVars>>
    \/ BuildStep /\ UNCHANGED <<builderVars, entropyVars>>
    \/ Deliver /\ UNCHANGED <<builderVars, entropyVars>>
    \/ DeliverNothing /\ UNCHANGED <<builderVars, entropyVars>>
    \/ Sleep /\ UNCHANGED <<builderVars, entropyVars>>
    \/ Interrupt /\ UNCHANGED <<builderVars, entropyVars>>

Spec == Init /\ [][Next]_vars

InitBuilder == LoopIdle /\ BuilderInit /\ EntropyIdle
NextBuilder == CallBuild /\ UNCHANGED <<loopVars, entropyVars>>
SpecBuilder == InitBuilder /\ [][NextBuilder]_vars

InitEntropy == LoopIdle /\ BuilderIdle /\ EntropyInit
NextEntropy == CallEntropy /\ UNCHANGED <<loopVars, builderVars>>
SpecEntropy == InitEntropy /\ [][NextEntropy]_vars

(***************************************************************************)
(* Properties of the poll loop (checked under Spec).                       *)
(***************************************************************************)
MacKey == "kismet.device.base.macaddr"

\* The device carries a non-empty hardware address under the flattened key.
HasHardwareAddress(dev) ==
    /\ dev.t = "obj"
    /\ MacKey \in DOMAIN dev.o
    /\ dev.o[MacKey].t = "str"
    /\ dev.o[MacKey].s # <<>>

Qualifying(devs) == SelectSeq(devs, HasHardwareAddress)

PipelineConfigured == es_pipeline.t = "str" /\ es_pipeline.s # <<>>

\* The actions handed to helpers.bulk are one per qualifying device of the
\* response fetched in this cycle, in fetch order, stamped with this cycle's time.
DeliveredThisCycleOnly ==
    /\ devices.t = "arr"
    /\ Len(cyc.actions) = Len(Qualifying(devices.a))
    /\ \A i \in 1..Len(cyc.actions) :
          /\ cyc.actions[i].source.bssid = Qualifying(devices.a)[i].o[MacKey]
          /\ cyc.actions[i].source.timestamp = sensor_now_iso
          /\ sensor_now_iso = IsoFormat(nSleep * POLL_INTERVAL_SEC)

\* C1: every cycle, whether it succeeded, its fetch raised or its delivery
\* raised, ends with exactly one sleep of POLL_INTERVAL_SEC: fetches and sleeps
\* alternate strictly (a fetch starts only when every earlier cycle has slept,
\* a cycle in progress is exactly one fetch ahead of the sleeps), the clock has
\* advanced by one interval per completed cycle, and no failure ends the loop.
C1_SleepEndsEveryCycle ==
    /\ nSleep <= nFetch /\ nFetch <= nSleep + 1
    /\ pc = "fetch" => nFetch = nSleep
    /\ pc \in {"transform", "sleep"} => nFetch = nSleep + 1
    /\ clock = nSleep * POLL_INTERVAL_SEC
    /\ (cyc.fetch \in FetchErrors \/ cyc.deliver \in {"ok", "raised", "skipped"})
          => pc \in {"sleep", "exited"}
    /\ pc = "exited" => interrupted # "no"

\* A cycle whose delivery raised was followed by its sleep, after a cycle whose
\* sleep was taken too; the loop is about to fetch again.
C1_Witness ==
    /\ pc = "fetch" /\ nSleep = 2 /\ nFetch = 2
    /\ prev.deliver = "raised"
    /\ clock = 2 * POLL_INTERVAL_SEC

\* C2: in a cycle whose fetch failed nothing is built or delivered and no bulk
\* write is issued; the loop goes to its sleep, and when the next cycle's fetch
\* succeeds that cycle delivers its own devices normally.
C2_FetchFailureDeliversNothing ==
    /\ cyc.fetch \in FetchErrors =>
          /\ cyc.bulkN = 0 /\ cyc.actions = <<>>
          /\ cyc.build = "none" /\ cyc.deliver = "none" /\ cyc.built = 0
          /\ pc \in {"sleep", "exited"}
    /\ prev.fetch \in FetchErrors => prev.bulkN = 0
    /\ (prev.fetch \in FetchErrors /\ cyc.deliver = "ok" /\ pc = "sleep") =>
          /\ cyc.bulkN = 1
          /\ DeliveredThisCycleOnly

\* The fetch timed out in the cycle before and this cycle has delivered.
C2_Witness ==
    /\ prev.fetch = "Timeout" /\ prev.bulkN = 0
    /\ cyc.fetch = "ok" /\ cyc.deliver = "ok" /\ cyc.bulkN = 1 /\ pc = "sleep"
    /\ cyc.actions # <<>>

FlatAddress(dev) == DictGet(dev, MacKey, None)

\* The nested convention: the "macaddr" of a sub-object under
\* "kismet.device.base".
NestedAddress(dev) ==
    LET sub == DictGet(dev, "kismet.device.base", None)
    IN  IF sub.t = "obj" THEN DictGet(sub, "macaddr", None) ELSE None

NonEmptyString(v) == v.t = "str" /\ v.s # <<>>

\* The record carries a non-empty hardware address, in either convention.
CarriesHardwareAddress(dev) ==
    NonEmptyString(FlatAddress(dev)) \/ NonEmptyString(NestedAddress(dev))

\* The hardware address the record carries.
AddressOf(dev) ==
    IF NonEmptyString(FlatAddress(dev)) THEN FlatAddress(dev) ELSE NestedAddress(dev)

HasAddress(dev) == dev.t = "obj" /\ CarriesHardwareAddress(dev)

\* The fetched devices that have a hardware address, in fetch order.
WithAddress(devs) == SelectSeq(devs, HasAddress)

\* C4, as stated: in a cycle whose fetch succeeded and whose transform did not
\* raise, the bulk request holds exactly one action per fetched device that
\* has a hardware address, in fetch order and built from this cycle's
\* response; every action names ES_INDEX and carries the pipeline iff one is
\* configured.
C4_OneActionPerDeviceWithAddress ==
    (pc = "sleep" /\ cyc.fetch = "ok" /\ cyc.build = "none") =>
        /\ cyc.built = Len(WithAddress(devices.a))
        /\ cyc.bulkN = 1 <=> WithAddress(devices.a) # <<>>
        /\ cyc.bulkN = 1 =>
              /\ Len(cyc.actions) = Len(WithAddress(devices.a))
              /\ \A i \in 1..Len(cyc.actions) :
                    /\ cyc.actions[i].source.bssid = AddressOf(WithAddress(devices.a)[i])
                    /\ cyc.actions[i].source.timestamp = sensor_now_iso
                    /\ cyc.actions[i].index = ES_INDEX
                    /\ cyc.actions[i].has_pipeline <=> PipelineConfigured
                    /\ cyc.actions[i].has_pipeline => cyc.actions[i].pipeline = es_pipeline

\* C5: helpers.bulk is never called with an empty batch: a cycle issues at
\* most one bulk write and only with actions; a cycle with no qualifying device
\* issues none; bulk_index on an empty list writes nothing and does not raise.
C5_NoEmptyBulk ==
    /\ cyc.bulkN <= 1
    /\ cyc.bulkN = 1 => cyc.actions # <<>>
    /\ (pc = "sleep" /\ cyc.fetch = "ok" /\ devices.t = "arr"
          /\ Qualifying(devices.a) = <<>>) => cyc.bulkN = 0
    /\ cyc.deliver = "skipped" => (cyc.bulkN = 0 /\ docs = <<>>)
    /\ ~bulk_index(<<>>, es_pipeline).writes
    /\ bulk_index(<<>>, es_pipeline).actions = <<>>

\* A response with devices, none of them qualifying, ended without a write.
C5_Witness ==
    /\ pc = "sleep" /\ cyc.deliver = "skipped" /\ cyc.bulkN = 0
    /\ devices.t = "arr" /\ Len(devices.a) = 2

\* C9: a KeyboardInterrupt, wherever it is raised (fetch, transform or
\* delivery, sleep, between statements or inside requests.get or helpers.bulk),
\* is not swallowed by the cycle's handler: it ends the loop and the process
\* ends cleanly; nothing else ends the loop.
C9_OnlyInterruptStops ==
    /\ interrupted # "no" => (pc = "exited" /\ exitStatus = "clean")
    /\ pc = "exited" => interrupted # "no"
    /\ exitStatus = "clean" <=> pc = "exited"
    /\ exitStatus # "traceback"

\* Interrupted inside the try block of a later cycle, after a failed cycle.
C9_Witness ==
    /\ interrupted = "transform" /\ pc = "exited" /\ exitStatus = "clean"
    /\ nFetch = 2 /\ prev.fetch \in FetchErrors

\* C10: when build_feature_doc raises for one device, the cycle issues no bulk
\* write, whatever was built before is not delivered, the loop goes to its sleep,
\* and the next cycle delivers only its own devices.
C10_BuildErrorAbortsCycle ==
    /\ cyc.build = "raised" =>
          /\ cyc.bulkN = 0 /\ cyc.actions = <<>> /\ cyc.deliver = "none"
          /\ pc \in {"sleep", "exited"}
    /\ prev.build = "raised" => prev.bulkN = 0
    /\ (prev.build = "raised" /\ cyc.bulkN = 1 /\ pc = "sleep") => DeliveredThisCycleOnly

\* The cycle before had built a document when a later device raised; this
\* cycle has delivered.
C10_Witness ==
    /\ prev.build = "raised" /\ prev.built >= 1 /\ prev.bulkN = 0
    /\ cyc.deliver = "ok" /\ cyc.bulkN = 1 /\ pc = "sleep"

(***************************************************************************)
(* Properties of build_feature_doc (checked under SpecBuilder).            *)
(***************************************************************************)
Built == bResult.done /\ bResult.r.kind = "doc"

\* C3, as stated: for a device record in either naming convention the builder
\* returns a feature record iff the record carries a non-empty hardware
\* address, and None when it carries none.
C3_EitherConvention ==
    (bResult.done /\ bDevice.t = "obj" /\ bResult.r.kind # "raise") =>
        /\ bResult.r.kind = "doc" <=> CarriesHardwareAddress(bDevice)
        /\ ~CarriesHardwareAddress(bDevice) => bResult.r.kind = "skip"

LastTime(dev) == DictGet(dev, "kismet.device.base.last_time", None)

\* The float is finite and its instant lies in the years 1..9999.
Representable(v) == v.kind = "finite" /\ InDatetimeRange(Instant(v))

\* The value is a numeric epoch datetime can represent: a number, or a string
\* float() converts, whose instant lies in the years 1..9999.
ValidEpoch(v) == FloatOk(v) /\ Representable(FloatVal(v))

IsoOf(i) == IsoFormatAt(i.days, i.sod, i.micro)

\* The isoformat() of the UTC instant of a valid epoch.
EpochOf(v) == IsoOf(Instant(FloatVal(v)))

\* C6, as stated: the timestamp is the UTC instant of the last-seen epoch when
\* that is a valid numeric epoch, and the caller's fallback in every other case.
C6_FallbackIsCallersTime ==
    Built =>
        bResult.r.doc.timestamp =
            IF ValidEpoch(LastTime(bDevice))
            THEN EpochOf(LastTime(bDevice))
            ELSE IsoFormat(bSensor)

OptionalKeys ==
    {"kismet.device.base.name", "kismet.device.base.commonname",
     "kismet.device.base.manuf", "kismet.device.base.channel",
     "kismet.device.base.phyname", "kismet.device.base.first_time",
     "kismet.device.base.last_time", "kismet.device.base.num_clients",
     "kismet.common.signal.last", "kismet.common.signal.min",
     "kismet.common.signal.max", "kismet.common.signal.avg"}

\* The record has a hardware address and none of the optional data.
AddressOnly(dev) ==
    /\ dev.t = "obj"
    /\ CarriesHardwareAddress(dev)
    /\ DOMAIN dev.o \cap OptionalKeys = {}

\* C7, as stated: a record with a hardware address and none of the optional
\* data gives a feature record whose ssid, manufacturer, channel, phy type,
\* first_seen, last_seen and rssi fields are None, with ssid_entropy 0.0 and
\* client_count 0.
C7_DefaultsWhenOnlyAddress ==
    (bResult.done /\ AddressOnly(bDevice)) =>
        /\ bResult.r.kind = "doc"
        /\ bResult.r.doc.ssid = None
        /\ bResult.r.doc.manuf = None
        /\ bResult.r.doc.channel = None
        /\ bResult.r.doc.phyname = None
        /\ bResult.r.doc.first_seen = NoTime
        /\ bResult.r.doc.last_seen = NoTime
        /\ bResult.r.doc.rssi_last = None
        /\ bResult.r.doc.rssi_min = None
        /\ bResult.r.doc.rssi_max = None
        /\ bResult.r.doc.rssi_mean = None
        /\ bResult.r.doc.ssid_entropy = Zero
        /\ bResult.r.doc.client_count = Num(0)

(***************************************************************************)
(* Properties of ssid_entropy (checked under SpecEntropy).                 *)
(***************************************************************************)
\* s with the characters at i and i + 1 exchanged.  Adjacent exchanges
\* generate every permutation, and the harness visits every string.
Swap(s, i) ==
    [j \in 1..Len(s) |-> IF j = i THEN s[i + 1] ELSE IF j = i + 1 THEN s[i] ELSE s[j]]

EntropyOf(s) == ssid_entropy(Str(s)).val

\* The number of distinct characters: the number of terms of the sum.
Distinct(s) == Len(FreqOf(s))

OneCharacter(s) == \A i \in 1..Len(s) : s[i] = s[1]

NonNegative(v) == v[1] >= 0 /\ v[2] >= 0

\* a - b in units of 2^-55, for a and b less than 2^30 units apart.
UnitsApart(a, b) == (a[1] - b[1]) * Limb + (a[2] - b[2])

Abs(i) == IF i < 0 THEN -i ELSE i

\* |a - b| <= k * 2^-52 * a: in units, |a - b| * 2^24 * Limb <= k * a.
WithinRounding(a, b, k) ==
    /\ Abs(a[1] - b[1]) <= 1
    /\ Abs(UnitsApart(a, b)) < 128
    /\ Abs(UnitsApart(a, b)) * 16777216 <= k * a[1] + (k * a[2]) \div Limb

EntropyBasics ==
    /\ ~eResult.r.raised
    /\ NonNegative(eResult.r.val)
    /\ OneCharacter(eSsid) => eResult.r.val = Zero

\* C8, as stated: the entropy is non-negative, 0 for the empty string and for
\* one repeated character, and the same for every permutation of the string.
C8_PermutationInvariant ==
    eResult.done =>
        /\ EntropyBasics
        /\ \A i \in 1..(Len(eSsid) - 1) : EntropyOf(Swap(eSsid, i)) = eResult.r.val

\* C8, amended: the entropy is non-negative, 0 for the empty string and for
\* one repeated character; two strings that are permutations of each other
\* have exactly the same entropy when they hold at most two distinct
\* characters, and otherwise entropies that agree up to the rounding of the
\* sum, which is taken in order of first occurrence: they are no further
\* apart than k * 2^-52 times either of them, for k distinct characters.
C8_InvariantUpToRounding ==
    eResult.done =>
        /\ EntropyBasics
        /\ \A i \in 1..(Len(eSsid) - 1) :
              /\ Distinct(eSsid) <= 2 => EntropyOf(Swap(eSsid, i)) = eResult.r.val
              /\ WithinRounding(eResult.r.val, EntropyOf(Swap(eSsid, i)), Distinct(eSsid))
              /\ WithinRounding(EntropyOf(Swap(eSsid, i)), eResult.r.val, Distinct(eSsid))

\* "aaabcb" against "aaacbb": the same characters, counts met in another
\* order, results one unit in the last place apart.
C8_Witness ==
    /\ eResult.done
    /\ eSsid = <<"a", "a", "a", "b", "c", "b">>
    /\ EntropyOf(Swap(eSsid, 4)) # eResult.r.val
    /\ Abs(UnitsApart(EntropyOf(Swap(eSsid, 4)), eResult.r.val)) = 8
    /\ WithinRounding(eResult.r.val, EntropyOf(Swap(eSsid, 4)), Distinct(eSsid))

====
